---- MODULE Spec2Model ----
(***************************************************************************)
(* The lead-capture server of main.go: the in-process broadcaster (one     *)
(* coordinator goroutine owning the subscriber set), the SSE stream        *)
(* handler (one goroutine per connection) and the submit handler (one      *)
(* goroutine per request), over a SQLite table of submissions.             *)
(***************************************************************************)
EXTENDS Integers, Sequences, FiniteSets, TLC

\* ------------------------------------------------------------------ bounds
\* Number of stream connections and of submit requests of a run.
NumSessions == 2
NumRequests == 3
\* Requests of the specifications that run fewer of them.
NumFewRequests == 2
\* Capacity of a session's msgCh. The source makes it with 10 slots
\* (make(chan string, 10)); the model scales it down so that a full queue
\* is reached with few submits.
QueueCap == 2
\* Capacity of b.send. The source makes it with 64 slots; scaled down.
SendCap == 1
\* Largest reading of the server clock, and heartbeat ticks of a run.
MaxNow == 1
MaxTicks == 1
\* Remove requests per channel, stray ones included.
MaxRemoves == 2
\* Latency requests of a run that come from arbitrary callers.
MaxLatency == 2
\* Rows of the largest table a server is started on.
MaxRows == 30
\* EventSource objects a dashboard creates in a run, error events it handles
\* without a successful open in between, and reconnect timers pending at once.
MaxSources == 3
MaxRetry == 3
MaxTimers == 2

\* The largest limit a recent-records query accepts, and the limits used
\* when it accepts none: on /api/leads and on /api/submit-form.
MaxLimit == 200
LeadsDefault == 20
ProofDefault == 10

\* The reconnect delay of the dashboard in ms: its base and its cap.
BaseDelay == 1000
MaxDelay == 8000

\* SQL NULL / a JSON field that is not there.
Null == -1

Sessions == 1..NumSessions
Requests == 1..NumRequests
\* Connections and requests are numbered in the order their handlers start.
\* Channels: every session makes its own msgCh (named after the session);
\* channel 0 is a channel that no session ever hands to b.add.
Handles == Sessions \cup {0}
\* The EventSource objects of one dashboard, in the order it makes them.
Sources == 1..MaxSources
\* clientSubmitAt of a request body: not there, or a number.
CsaInputs == {Null, 0, 7}

VARIABLES
    conns,      \* b.conns: the set of subscribed channels
    queue,      \* queue[h]: the buffer of channel h, oldest first
    closes,     \* closes[h]: how many times close(h) was executed
    sendBuf,    \* the buffer of b.send, oldest first
    cpc,        \* coordinator: "select" (waiting) or "fanout" (in the range loop)
    cmsg,       \* coordinator: msg of the send case being fanned out
    ctodo,      \* coordinator: channels the range loop has yet to visit
    spc,        \* spc[s]: position of stream handler s
    cancelled,  \* cancelled[s]: the request context of s is Done
    hb,         \* hb[s]: a tick is waiting in heartbeat.C
    ticks,      \* ticks fired so far, over all tickers
    frames,     \* frames[s]: what handler s wrote to c.Writer, in order
    rpc,        \* rpc[r]: position of submit handler r
    rin,        \* rin[r]: clientSubmitAt of the request body of r
    rid,        \* rid[r]: id returned by LastInsertId
    rsba,       \* rsba[r]: serverBroadcastAt
    db,         \* the submissions table: db[i] is the row with id i
    now,        \* last reading of the server clock
    published,  \* history: payloads sent on b.send, in order
    replayed,   \* history: the add/remove requests processed so far, replayed
    removes,    \* history: removes[h] remove requests sent for channel h
    rbody,      \* rbody[r]: what the request body of r was like
    werr,       \* werr[s]: a write to the transport of s has failed
    seen,       \* seen[s]: submission frames the viewer of s has handled
    lreq,       \* the last latency request handled, with its response
    lcount,     \* latency requests handled so far
    qres,       \* the last recent-records query handled, with its response
    es,         \* es[e]: readyState of the e-th EventSource the dashboard made
    esRef,      \* esRef.current: the EventSource in use (0: null)
    retryRef,   \* retryRef.current
    cleanup,    \* the effect's cleanup has run
    timers      \* the reconnect timers set and not yet fired

vars == <<conns, queue, closes, sendBuf, cpc, cmsg, ctodo, spc, cancelled, hb,
          ticks, frames, rpc, rin, rid, rsba, db, now, published, replayed,
          removes, rbody, werr, seen, lreq, lcount, qres,
          es, esRef, retryRef, cleanup, timers>>

busVars == <<conns, queue, closes, sendBuf, cpc, cmsg, ctodo, replayed>>
sessVars == <<spc, cancelled, hb, ticks, frames, removes, werr>>
reqVars == <<rpc, rin, rid, rsba, db, now, published, rbody>>
clientVars == <<es, esRef, retryRef, cleanup, timers>>
sideVars == <<seen, lreq, lcount, qres, clientVars>>

NoMsg == [id |-> 0, csa |-> Null, sba |-> 0]

\* The latency fields of a row, and of the body of a latency request.
LatencyFields == {"submitToServer", "serverToDisplay", "submitToDisplay"}
NoFields == [f \in LatencyFields |-> Null]

\* No latency request, and no query, handled yet.
NoLatency == [id |-> Null, body |-> NoFields, status |-> 0]
NoQuery ==
    [path |-> "none", limit |-> [kind |-> "absent", v |-> 0], status |-> 0,
     ids |-> <<>>]

\* The server starts on the table that the file at SQLITE_PATH holds.
InitOn(table) ==
    /\ db = table
    /\ conns = {}
    /\ queue = [h \in Handles |-> <<>>]
    /\ closes = [h \in Handles |-> 0]
    /\ sendBuf = <<>>
    /\ cpc = "select"
    /\ cmsg = NoMsg
    /\ ctodo = {}
    /\ spc = [s \in Sessions |-> "idle"]
    /\ cancelled = [s \in Sessions |-> FALSE]
    /\ hb = [s \in Sessions |-> FALSE]
    /\ ticks = 0
    /\ frames = [s \in Sessions |-> <<>>]
    /\ rpc = [r \in Requests |-> "idle"]
    /\ rin = [r \in Requests |-> Null]
    /\ rid = [r \in Requests |-> 0]
    /\ rsba = [r \in Requests |-> 0]
    /\ now = 1
    /\ published = <<>>
    /\ replayed = {}
    /\ removes = [h \in Handles |-> 0]
    /\ rbody = [r \in Requests |-> "none"]
    /\ werr = [s \in Sessions |-> FALSE]
    /\ seen = [s \in Sessions |-> 0]
    /\ lreq = NoLatency
    /\ lcount = 0
    /\ qres = NoQuery
    /\ es = [e \in Sources |-> "none"]
    /\ esRef = 0
    /\ retryRef = 0
    /\ cleanup = FALSE
    /\ timers = <<>>

\* The server starts on a new file: CREATE TABLE IF NOT EXISTS makes the
\* empty table.
Init == InitOn(<<>>)

\* ------------------------------------------------------- the coordinator

\* Mutant: the message goes to the front of the buffer.
OfferFront(q, msg) == IF Len(q) < QueueCap THEN <<msg>> \o q ELSE q

\* case ch <- msg: / default: the non-blocking send on a buffered channel.
Offer(q, msg) == IF Len(q) < QueueCap THEN Append(q, msg) ELSE q

\* Mutant: a full queue ends the range loop.
RestBreakOnFull(todo, ch, q) == IF Len(q) >= QueueCap THEN {} ELSE todo \ {ch}

\* What the range loop has left after visiting ch, whose buffer was q.
Rest(todo, ch, q) == todo \ {ch}

\* Mutant: the handlers subscribe one channel they all share (channel 0).
AddCaseShared(cs, ch) == cs \cup {0}

\* case ch := <-b.add
AddCase(cs, ch) == cs \cup {ch}

\* Mutant: the remove case closes the channel without looking it up.
RemoveClosesAlways(cs, ch) == TRUE

\* Mutant: the send case drops the subscribers that lag behind.
SendCaseDropsLagging(cs, msg) == {h \in cs : queue[h] = <<>>}

\* Mutant: the remove case leaves the channel in the set.
RemoveCaseKeeps(cs, ch) == cs

\* Mutant: the remove case empties the set.
RemoveCaseDropsAll(cs, ch) == {}

\* case ch := <-b.remove: the set afterwards, and whether ch gets closed.
RemoveCase(cs, ch) == IF ch \in cs THEN cs \ {ch} ELSE cs
RemoveCloses(cs, ch) == ch \in cs

\* case msg := <-b.send: the set the fan-out leaves behind.
SendCase(cs, msg) == cs

\* Mutant: the add case is not taken while a subscriber's queue or the buffer
\* of b.send is full.
CoordAddWaits(s) ==
    /\ cpc = "select"
    /\ spc[s] = "adding"
    /\ Len(sendBuf) < SendCap
    /\ \A h \in conns : Len(queue[h]) < QueueCap
    /\ conns' = AddCase(conns, s)
    /\ replayed' = replayed \cup {s}
    /\ spc' = [spc EXCEPT ![s] = "greet"]
    /\ UNCHANGED <<queue, closes, sendBuf, cpc, cmsg, ctodo>>
    /\ UNCHANGED <<cancelled, hb, ticks, frames, removes, werr>>
    /\ UNCHANGED reqVars
    /\ UNCHANGED sideVars

\* Mutant: the add case also hands the new channel the first message that
\* was ever published.
CoordAddReplays(s) ==
    /\ cpc = "select"
    /\ spc[s] = "adding"
    /\ conns' = AddCase(conns, s)
    /\ replayed' = replayed \cup {s}
    /\ spc' = [spc EXCEPT ![s] = "greet"]
    /\ queue' = [queue EXCEPT ![s] = IF published = <<>> THEN @
                                     ELSE Offer(@, published[1])]
    /\ UNCHANGED <<closes, sendBuf, cpc, cmsg, ctodo>>
    /\ UNCHANGED <<cancelled, hb, ticks, frames, removes, werr>>
    /\ UNCHANGED reqVars
    /\ UNCHANGED sideVars

\* The coordinator takes stream handler s's b.add <- msgCh.
CoordAdd(s) ==
    /\ cpc = "select"
    /\ spc[s] = "adding"
    /\ conns' = AddCase(conns, s)
    /\ replayed' = replayed \cup {s}
    /\ spc' = [spc EXCEPT ![s] = "greet"]
    /\ UNCHANGED <<queue, closes, sendBuf, cpc, cmsg, ctodo>>
    /\ UNCHANGED <<cancelled, hb, ticks, frames, removes, werr>>
    /\ UNCHANGED reqVars
    /\ UNCHANGED sideVars

\* Mutant: the remove case does not wait for the fan-out to end.
DoRemoveDuringFanout(ch) ==
    /\ conns' = RemoveCase(conns, ch)
    /\ closes' = [closes EXCEPT ![ch] = @ + (IF RemoveCloses(conns, ch) THEN 1 ELSE 0)]
    /\ replayed' = replayed \ {ch}
    /\ removes' = [removes EXCEPT ![ch] = @ + 1]
    /\ UNCHANGED <<queue, sendBuf, cpc, cmsg, ctodo>>

\* The coordinator's remove case on channel ch.
DoRemove(ch) ==
    /\ cpc = "select"
    /\ conns' = RemoveCase(conns, ch)
    /\ closes' = [closes EXCEPT ![ch] = @ + (IF RemoveCloses(conns, ch) THEN 1 ELSE 0)]
    /\ replayed' = replayed \ {ch}
    /\ removes' = [removes EXCEPT ![ch] = @ + 1]
    /\ UNCHANGED <<queue, sendBuf, cpc, cmsg, ctodo>>

\* The coordinator takes stream handler s's deferred b.remove <- msgCh.
CoordRemove(s) ==
    /\ spc[s] = "removing"
    /\ DoRemove(s)
    /\ spc' = [spc EXCEPT ![s] = "closed"]
    /\ UNCHANGED <<cancelled, hb, ticks, frames, werr>>
    /\ UNCHANGED reqVars
    /\ UNCHANGED sideVars

\* A remove request for a channel that is not subscribed: channel 0, which
\* was never added, or the channel of a handler that has closed. No handler
\* of the program sends one; the coordinator's remove case provides for it.
StrayRemove(ch) ==
    /\ IF ch \in Sessions THEN spc[ch] = "closed" ELSE TRUE
    /\ removes[ch] < MaxRemoves
    /\ DoRemove(ch)
    /\ UNCHANGED <<spc, cancelled, hb, ticks, frames, werr>>
    /\ UNCHANGED reqVars
    /\ UNCHANGED sideVars

\* case msg := <-b.send: the coordinator enters the range loop.
CoordRecv ==
    /\ cpc = "select"
    /\ sendBuf # <<>>
    /\ cmsg' = IF conns = {} THEN NoMsg ELSE Head(sendBuf)
    /\ sendBuf' = Tail(sendBuf)
    /\ conns' = SendCase(conns, Head(sendBuf))
    /\ ctodo' = conns
    /\ cpc' = IF conns = {} THEN "select" ELSE "fanout"
    /\ UNCHANGED <<queue, closes, replayed>>
    /\ UNCHANGED sessVars
    /\ UNCHANGED reqVars
    /\ UNCHANGED sideVars

\* One iteration of for ch := range b.conns (the order is the map's).
CoordDeliver(ch) ==
    /\ cpc = "fanout"
    /\ ch \in ctodo
    /\ queue' = [queue EXCEPT ![ch] = Offer(@, cmsg)]
    /\ ctodo' = Rest(ctodo, ch, queue[ch])
    /\ cpc' = IF ctodo' = {} THEN "select" ELSE "fanout"
    /\ cmsg' = IF ctodo' = {} THEN NoMsg ELSE cmsg
    /\ UNCHANGED <<conns, closes, sendBuf, replayed>>
    /\ UNCHANGED sessVars
    /\ UNCHANGED reqVars
    /\ UNCHANGED sideVars

\* ---------------------------------------------------- the stream handler

Frame(event, data) == [event |-> event, data |-> data]

\* The handler starts; the c.Writer.(http.Flusher) assertion gives ok.
StreamStart(s, ok) ==
    /\ spc[s] = "idle"
    /\ \A x \in Sessions : x < s => spc[x] # "idle"
    /\ spc' = [spc EXCEPT ![s] = IF ok THEN "adding" ELSE "failed"]
    /\ UNCHANGED <<cancelled, hb, ticks, frames, removes, werr>>
    /\ UNCHANGED busVars
    /\ UNCHANGED reqVars
    /\ UNCHANGED sideVars

\* The peer disconnects (or the server shuts the connection): ctx is Done.
Cancel(s) ==
    /\ spc[s] \in {"adding", "greet", "loop"}
    /\ ~cancelled[s]
    /\ cancelled' = [cancelled EXCEPT ![s] = TRUE]
    /\ UNCHANGED <<spc, hb, ticks, frames, removes, werr>>
    /\ UNCHANGED busVars
    /\ UNCHANGED reqVars
    /\ UNCHANGED sideVars

\* Mutant: the greeting is written before the send on b.add.
SessGreetBeforeAdd(s) ==
    /\ spc[s] = "adding"
    /\ frames[s] = <<>>
    /\ ~werr[s]
    /\ frames' = [frames EXCEPT ![s] = Append(@, Frame("connected", NoMsg))]
    /\ UNCHANGED <<spc, cancelled, hb, ticks, removes, werr>>
    /\ UNCHANGED busVars
    /\ UNCHANGED reqVars
    /\ UNCHANGED sideVars

\* fmt.Fprintf(c.Writer, ": connected\n\n"); Flush; NewTicker.
SessGreet(s) ==
    /\ spc[s] = "greet"
    /\ ~werr[s]
    /\ frames' = [frames EXCEPT ![s] = Append(@, Frame("connected", NoMsg))]
    /\ spc' = [spc EXCEPT ![s] = "loop"]
    /\ UNCHANGED <<cancelled, hb, ticks, removes, werr>>
    /\ UNCHANGED busVars
    /\ UNCHANGED reqVars
    /\ UNCHANGED sideVars

\* The ticker fires into heartbeat.C (one slot).
Tick(s) ==
    /\ spc[s] = "loop"
    /\ ~hb[s]
    /\ ticks < MaxTicks
    /\ hb' = [hb EXCEPT ![s] = TRUE]
    /\ ticks' = ticks + 1
    /\ UNCHANGED <<spc, cancelled, frames, removes, werr>>
    /\ UNCHANGED busVars
    /\ UNCHANGED reqVars
    /\ UNCHANGED sideVars

\* Mutant: the return runs no deferred send on b.remove.
SessNotifyNoDefer(s) ==
    /\ spc[s] = "loop"
    /\ cancelled[s]
    /\ spc' = [spc EXCEPT ![s] = "closed"]
    /\ hb' = [hb EXCEPT ![s] = FALSE]
    /\ UNCHANGED <<cancelled, ticks, frames, removes, werr>>
    /\ UNCHANGED busVars
    /\ UNCHANGED reqVars
    /\ UNCHANGED sideVars

\* Mutant: on its return the handler also closes its channel itself.
SessNotifyCloses(s) ==
    /\ spc[s] = "loop"
    /\ cancelled[s]
    /\ spc' = [spc EXCEPT ![s] = "removing"]
    /\ hb' = [hb EXCEPT ![s] = FALSE]
    /\ closes' = [closes EXCEPT ![s] = @ + 1]
    /\ UNCHANGED <<cancelled, ticks, frames, removes, werr>>
    /\ UNCHANGED <<conns, queue, sendBuf, cpc, cmsg, ctodo, replayed>>
    /\ UNCHANGED reqVars
    /\ UNCHANGED sideVars

\* case <-notify: return (the deferred calls follow: heartbeat.Stop, then
\* the send on b.remove, which waits for the coordinator).
SessNotify(s) ==
    /\ spc[s] = "loop"
    /\ cancelled[s]
    /\ spc' = [spc EXCEPT ![s] = "removing"]
    /\ hb' = [hb EXCEPT ![s] = FALSE]
    /\ UNCHANGED <<cancelled, ticks, frames, removes, werr>>
    /\ UNCHANGED busVars
    /\ UNCHANGED reqVars
    /\ UNCHANGED sideVars

\* Mutant: the heartbeat case takes the tick and writes nothing.
SessHeartbeatSilent(s) ==
    /\ spc[s] = "loop"
    /\ hb[s]
    /\ ~werr[s]
    /\ hb' = [hb EXCEPT ![s] = FALSE]
    /\ UNCHANGED <<spc, cancelled, ticks, frames, removes, werr>>
    /\ UNCHANGED busVars
    /\ UNCHANGED reqVars
    /\ UNCHANGED sideVars

\* case <-heartbeat.C
SessHeartbeat(s) ==
    /\ spc[s] = "loop"
    /\ hb[s]
    /\ ~werr[s]
    /\ frames' = [frames EXCEPT ![s] = Append(@, Frame("ping", NoMsg))]
    /\ hb' = [hb EXCEPT ![s] = FALSE]
    /\ UNCHANGED <<spc, cancelled, ticks, removes, werr>>
    /\ UNCHANGED busVars
    /\ UNCHANGED reqVars
    /\ UNCHANGED sideVars

\* Mutant: the handler takes the newest message of its channel first.
SessMsgNewest(s) ==
    /\ spc[s] = "loop"
    /\ queue[s] # <<>>
    /\ ~werr[s]
    /\ frames' = [frames EXCEPT ![s] =
                      Append(@, Frame("submission", queue[s][Len(queue[s])]))]
    /\ queue' = [queue EXCEPT ![s] = SubSeq(@, 1, Len(@) - 1)]
    /\ UNCHANGED <<spc, cancelled, hb, ticks, removes, werr>>
    /\ UNCHANGED <<conns, closes, sendBuf, cpc, cmsg, ctodo, replayed>>
    /\ UNCHANGED reqVars
    /\ UNCHANGED sideVars

\* case msg := <-msgCh
SessMsg(s) ==
    /\ spc[s] = "loop"
    /\ queue[s] # <<>>
    /\ ~werr[s]
    /\ frames' = [frames EXCEPT ![s] = Append(@, Frame("submission", Head(queue[s])))]
    /\ queue' = [queue EXCEPT ![s] = Tail(@)]
    /\ UNCHANGED <<spc, cancelled, hb, ticks, removes, werr>>
    /\ UNCHANGED <<conns, closes, sendBuf, cpc, cmsg, ctodo, replayed>>
    /\ UNCHANGED reqVars
    /\ UNCHANGED sideVars

\* ------------------------------------------------- writes that fail

\* Mutant: a failed write sets the connection's error and leaves the
\* request context alone.
WriteErrorNoCancel(s) ==
    /\ werr' = [werr EXCEPT ![s] = TRUE]
    /\ UNCHANGED cancelled

\* A write to the connection fails (the peer is gone, the socket is reset):
\* the handler ignores what Fprintf returns and Flush returns nothing, but
\* net/http records the error on the connection and cancels the context of
\* its request, and every later write on the connection fails too.
WriteError(s) ==
    /\ werr' = [werr EXCEPT ![s] = TRUE]
    /\ cancelled' = [cancelled EXCEPT ![s] = TRUE]

\* fmt.Fprintf(c.Writer, ": connected\n\n"); Flush fails; NewTicker.
SessGreetFail(s) ==
    /\ spc[s] = "greet"
    /\ WriteError(s)
    /\ spc' = [spc EXCEPT ![s] = "loop"]
    /\ UNCHANGED <<hb, ticks, frames, removes>>
    /\ UNCHANGED busVars
    /\ UNCHANGED reqVars
    /\ UNCHANGED sideVars

\* case <-heartbeat.C, and the write fails.
SessHeartbeatFail(s) ==
    /\ spc[s] = "loop"
    /\ hb[s]
    /\ WriteError(s)
    /\ hb' = [hb EXCEPT ![s] = FALSE]
    /\ UNCHANGED <<spc, ticks, frames, removes>>
    /\ UNCHANGED busVars
    /\ UNCHANGED reqVars
    /\ UNCHANGED sideVars

\* case msg := <-msgCh, and the write fails: the message is lost.
SessMsgFail(s) ==
    /\ spc[s] = "loop"
    /\ queue[s] # <<>>
    /\ WriteError(s)
    /\ queue' = [queue EXCEPT ![s] = Tail(@)]
    /\ UNCHANGED <<spc, hb, ticks, frames, removes>>
    /\ UNCHANGED <<conns, closes, sendBuf, cpc, cmsg, ctodo, replayed>>
    /\ UNCHANGED reqVars
    /\ UNCHANGED sideVars

\* ---------------------------------------------------- the submit handler

\* A well-formed request body: "full" has name, email and message, "partial"
\* lacks at least one of them. (A body that is not well-formed JSON, or has
\* a field of the wrong type, is "malformed".)
Bodies == {"full", "partial"}

\* ShouldBindJSON into Submission.ClientSubmitAt (int64): a field that is
\* not there leaves the zero value.
Bind(in) == IF in = Null THEN 0 ELSE in

\* Mutant: the payload struct's clientSubmitAt has no omitempty.
MarshalKeepsZero(id, csa, sba) == [id |-> id, csa |-> csa, sba |-> sba]

\* json.Marshal of the payload struct; clientSubmitAt is omitempty.
Marshal(id, csa, sba) ==
    [id |-> id, csa |-> IF csa = 0 THEN Null ELSE csa, sba |-> sba]

\* The row that INSERT INTO submissions (..., client_submit_at_ms) creates.
\* timestamp defaults to CURRENT_TIMESTAMP.
NewRow(csa) == [csa |-> csa, sba |-> Null, lat |-> NoFields, ts |-> now]

\* ShouldBindJSON fails: 400.
SubmitBadInput(r) ==
    /\ rpc[r] = "idle"
    /\ \A x \in Requests : x < r => rpc[x] # "idle"
    /\ rpc' = [rpc EXCEPT ![r] = "rejected"]
    /\ rbody' = [rbody EXCEPT ![r] = "malformed"]
    /\ UNCHANGED <<rin, rid, rsba, db, now, published>>
    /\ UNCHANGED busVars
    /\ UNCHANGED sessVars
    /\ UNCHANGED sideVars

\* Mutant: the payload is sent before the error of the INSERT is looked at.
SubmitInsertFailPublishes(r, in, body) ==
    /\ rpc[r] = "idle"
    /\ \A x \in Requests : x < r => rpc[x] # "idle"
    /\ Len(sendBuf) < SendCap
    /\ rin' = [rin EXCEPT ![r] = in]
    /\ rbody' = [rbody EXCEPT ![r] = body]
    /\ sendBuf' = Append(sendBuf, Marshal(0, Bind(in), now))
    /\ published' = Append(published, Marshal(0, Bind(in), now))
    /\ rpc' = [rpc EXCEPT ![r] = "failed"]
    /\ UNCHANGED <<rid, rsba, db, now>>
    /\ UNCHANGED <<conns, queue, closes, cpc, cmsg, ctodo, replayed>>
    /\ UNCHANGED sessVars
    /\ UNCHANGED sideVars

\* db.Exec(INSERT) fails: 500.
SubmitInsertFail(r, in, body) ==
    /\ rpc[r] = "idle"
    /\ \A x \in Requests : x < r => rpc[x] # "idle"
    /\ rin' = [rin EXCEPT ![r] = in]
    /\ rbody' = [rbody EXCEPT ![r] = body]
    /\ rpc' = [rpc EXCEPT ![r] = "failed"]
    /\ UNCHANGED <<rid, rsba, db, now, published>>
    /\ UNCHANGED busVars
    /\ UNCHANGED sessVars
    /\ UNCHANGED sideVars

\* Mutant: the handler goes on with an id although no row was committed.
SubmitInsertNoCommit(r, in, body) ==
    /\ rpc[r] = "idle"
    /\ \A x \in Requests : x < r => rpc[x] # "idle"
    /\ rin' = [rin EXCEPT ![r] = in]
    /\ rbody' = [rbody EXCEPT ![r] = body]
    /\ rid' = [rid EXCEPT ![r] = Len(db) + 1]
    /\ rpc' = [rpc EXCEPT ![r] = "publish"]
    /\ rsba' = [rsba EXCEPT ![r] = now]
    /\ UNCHANGED <<db, now, published>>
    /\ UNCHANGED busVars
    /\ UNCHANGED sessVars
    /\ UNCHANGED sideVars

\* Mutant: the INSERT is run twice (a retry inside the handler).
SubmitInsertTwice(r, in, body) ==
    /\ rpc[r] = "idle"
    /\ \A x \in Requests : x < r => rpc[x] # "idle"
    /\ rin' = [rin EXCEPT ![r] = in]
    /\ rbody' = [rbody EXCEPT ![r] = body]
    /\ db' = Append(Append(db, NewRow(Bind(in))), NewRow(Bind(in)))
    /\ rid' = [rid EXCEPT ![r] = Len(db) + 2]
    /\ rpc' = [rpc EXCEPT ![r] = "stamp"]
    /\ UNCHANGED <<rsba, now, published>>
    /\ UNCHANGED busVars
    /\ UNCHANGED sessVars
    /\ UNCHANGED sideVars

\* db.Exec(INSERT) commits; id, _ := res.LastInsertId().
SubmitInsert(r, in, body) ==
    /\ rpc[r] = "idle"
    /\ \A x \in Requests : x < r => rpc[x] # "idle"
    /\ rin' = [rin EXCEPT ![r] = in]
    /\ rbody' = [rbody EXCEPT ![r] = body]
    /\ db' = Append(db, NewRow(Bind(in)))
    /\ rid' = [rid EXCEPT ![r] = Len(db) + 1]
    /\ rpc' = [rpc EXCEPT ![r] = "stamp"]
    /\ UNCHANGED <<rsba, now, published>>
    /\ UNCHANGED busVars
    /\ UNCHANGED sessVars
    /\ UNCHANGED sideVars

\* serverBroadcastAt := time.Now().UnixMilli(); the UPDATE that stamps the
\* row succeeds.
SubmitStamp(r, t) ==
    /\ rpc[r] = "stamp"
    /\ t >= now
    /\ now' = t
    /\ rsba' = [rsba EXCEPT ![r] = t]
    /\ db' = [db EXCEPT ![rid[r]].sba = t]
    /\ rpc' = [rpc EXCEPT ![r] = "publish"]
    /\ UNCHANGED <<rin, rid, published, rbody>>
    /\ UNCHANGED busVars
    /\ UNCHANGED sessVars
    /\ UNCHANGED sideVars

\* The same, but the UPDATE fails: its result is discarded (_, _ =) and the
\* handler goes on.
SubmitStampFail(r, t) ==
    /\ rpc[r] = "stamp"
    /\ t >= now
    /\ now' = t
    /\ rsba' = [rsba EXCEPT ![r] = t]
    /\ rpc' = [rpc EXCEPT ![r] = "publish"]
    /\ UNCHANGED <<rin, rid, db, published, rbody>>
    /\ UNCHANGED busVars
    /\ UNCHANGED sessVars
    /\ UNCHANGED sideVars

\* Mutant: the publisher also waits until every subscriber's queue has room.
SubmitPublishWaits(r) ==
    /\ rpc[r] = "publish"
    /\ Len(sendBuf) < SendCap
    /\ \A h \in conns : Len(queue[h]) < QueueCap
    /\ sendBuf' = Append(sendBuf, Marshal(rid[r], Bind(rin[r]), rsba[r]))
    /\ published' = Append(published, Marshal(rid[r], Bind(rin[r]), rsba[r]))
    /\ rpc' = [rpc EXCEPT ![r] = "respond"]
    /\ UNCHANGED <<rin, rid, rsba, db, now, rbody>>
    /\ UNCHANGED <<conns, queue, closes, cpc, cmsg, ctodo, replayed>>
    /\ UNCHANGED sessVars
    /\ UNCHANGED sideVars

\* b.send <- string(payload): waits while the buffer of b.send is full.
SubmitPublish(r) ==
    /\ rpc[r] = "publish"
    /\ Len(sendBuf) < SendCap
    /\ sendBuf' = Append(sendBuf, Marshal(rid[r], Bind(rin[r]), rsba[r]))
    /\ published' = Append(published, Marshal(rid[r], Bind(rin[r]), rsba[r]))
    /\ rpc' = [rpc EXCEPT ![r] = "respond"]
    /\ UNCHANGED <<rin, rid, rsba, db, now, rbody>>
    /\ UNCHANGED <<conns, queue, closes, cpc, cmsg, ctodo, replayed>>
    /\ UNCHANGED sessVars
    /\ UNCHANGED sideVars

\* c.JSON(http.StatusOK, ...)
SubmitRespond(r) ==
    /\ rpc[r] = "respond"
    /\ rpc' = [rpc EXCEPT ![r] = "done"]
    /\ UNCHANGED <<rin, rid, rsba, db, now, published, rbody>>
    /\ UNCHANGED busVars
    /\ UNCHANGED sessVars
    /\ UNCHANGED sideVars

\* --------------------------------------------------- the latency handler

\* The :id path parameter: not a number (Null), or a number.
IdInputs == {Null, -2, 0, 1, 2, 3}

\* Well-formed latency bodies: no field, one field, two fields, all three,
\* and one whose number is negative (the fields are *int64).
BodyInputs ==
    { NoFields,
      [NoFields EXCEPT !["serverToDisplay"] = 4],
      [NoFields EXCEPT !["submitToDisplay"] = -3],
      [NoFields EXCEPT !["submitToServer"] = 9, !["submitToDisplay"] = 9],
      [f \in LatencyFields |-> 4] }

\* Mutant: the id check lets 0 through.
ValidIdAllowsZero(id) == id # Null /\ id >= 0

\* strconv.ParseInt(idStr, 10, 64) succeeds and id > 0.
ValidId(id) == id # Null /\ id > 0

\* Mutant: every latency column is set, supplied or not.
SetClauseAll(lat, body) == body

\* Mutant: a column that has a value keeps it.
SetClauseKeepFirst(lat, body) ==
    [f \in LatencyFields |-> IF lat[f] # Null THEN lat[f] ELSE body[f]]

\* UPDATE submissions SET <the columns of the fields that are not nil>.
SetClause(lat, body) ==
    [f \in LatencyFields |-> IF body[f] # Null THEN body[f] ELSE lat[f]]

\* ... WHERE id = ?: the table after the UPDATE.
UpdateLatency(id, body) ==
    IF id \in DOMAIN db
    THEN [db EXCEPT ![id].lat = SetClause(@, body)]
    ELSE db

\* The handler answers the request (id, body) with status, leaving the
\* table as table.
LatencyDone(id, body, status, table) ==
    /\ db' = table
    /\ lreq' = [id |-> id, body |-> body, status |-> status]
    /\ lcount' = lcount + 1

\* err != nil || id <= 0: 400 "invalid id".
LatencyBadId(id, body) ==
    /\ ~ValidId(id)
    /\ LatencyDone(id, body, 400, db)

\* ShouldBindJSON fails: 400 "invalid payload".
LatencyBadPayload(id) ==
    /\ ValidId(id)
    /\ LatencyDone(id, NoFields, 400, db)

\* len(sets) == 0: 400 "no fields to update".
LatencyNoFields(id, body) ==
    /\ ValidId(id)
    /\ body = NoFields
    /\ LatencyDone(id, body, 400, db)

\* db.Exec(UPDATE) fails: 500.
LatencyUpdateFail(id, body) ==
    /\ ValidId(id)
    /\ body # NoFields
    /\ LatencyDone(id, body, 500, db)

\* db.Exec(UPDATE) succeeds: 200 (whether or not a row has this id).
LatencyUpdate(id, body) ==
    /\ ValidId(id)
    /\ body # NoFields
    /\ LatencyDone(id, body, 200, UpdateLatency(id, body))

\* What a latency request leaves alone.
LatencyFrame ==
    /\ UNCHANGED <<rpc, rin, rid, rsba, now, published, rbody>>
    /\ UNCHANGED busVars
    /\ UNCHANGED sessVars
    /\ UNCHANGED <<seen, qres>>
    /\ UNCHANGED clientVars

\* Latency requests from arbitrary callers.
Latency(IDS, BODIES) ==
    \/ \E id \in IDS, body \in BODIES :
          lcount < MaxLatency /\ LatencyBadId(id, body) /\ LatencyFrame
    \/ \E id \in IDS :
          lcount < MaxLatency /\ LatencyBadPayload(id) /\ LatencyFrame
    \/ \E id \in IDS, body \in BODIES :
          lcount < MaxLatency /\ LatencyNoFields(id, body) /\ LatencyFrame
    \/ \E id \in IDS, body \in BODIES :
          lcount < MaxLatency /\ LatencyUpdateFail(id, body) /\ LatencyFrame
    \/ \E id \in IDS, body \in BODIES :
          lcount < MaxLatency /\ LatencyUpdate(id, body) /\ LatencyFrame

\* ---------------------------------------------------- the query handlers

\* The limit query parameter: not there (or empty), not a number, a number.
LimitInputs ==
    {[kind |-> "absent", v |-> 0], [kind |-> "text", v |-> 0]}
    \cup {[kind |-> "int", v |-> n] : n \in {-5, 0, 1, 10, 20, 21, 200, 201, 500}}

\* The two recent-records paths and their default limits.
Paths == {"leads", "proof"}
Default(path) == IF path = "leads" THEN LeadsDefault ELSE ProofDefault

\* Mutant: the parsed limit is not checked to be positive.
LimitNoLowerBound(l, default) ==
    IF l.kind = "int" /\ l.v <= MaxLimit THEN l.v ELSE default

\* limit := default; if l != "" and Atoi(l) gives 0 < v <= 200, limit = v.
Limit(l, default) ==
    IF l.kind = "int" /\ l.v > 0 /\ l.v <= MaxLimit THEN l.v ELSE default

\* ORDER BY timestamp DESC: row i comes before row j. Rows with the same
\* timestamp come in an order SQL leaves open; tie says which of two.
Before(i, j, tie) ==
    \/ db[i].ts > db[j].ts
    \/ db[i].ts = db[j].ts /\ (IF tie = "asc" THEN i < j ELSE i > j)

\* The row of S that comes before all others of S, found by a scan of the
\* rows from i on, best being the first of the rows scanned so far (0: none).
RECURSIVE First(_, _, _, _)
First(S, i, best, tie) ==
    IF i > Len(db) THEN best
    ELSE First(S, i + 1,
               IF i \in S /\ (best = 0 \/ Before(i, best, tie)) THEN i ELSE best,
               tie)

\* The first k ids of the rows S in that order (all of them if k < 0, as
\* SQLite reads a negative LIMIT).
RECURSIVE Top(_, _, _)
Top(S, k, tie) ==
    IF k = 0 \/ S = {} THEN <<>>
    ELSE LET first == First(S, 1, 0, tie)
         IN <<first>> \o Top(S \ {first}, k - 1, tie)

\* What a query leaves alone.
QueryFrame ==
    /\ UNCHANGED reqVars
    /\ UNCHANGED busVars
    /\ UNCHANGED sessVars
    /\ UNCHANGED <<seen, lreq, lcount>>
    /\ UNCHANGED clientVars

\* db.Query fails, or a row cannot be read: 500.
QueryFail(path, l) ==
    /\ qres' = [path |-> path, limit |-> l, status |-> 500, ids |-> <<>>]
    /\ QueryFrame

\* SELECT ... ORDER BY timestamp DESC LIMIT ?: 200 with the rows.
QueryRows(path, l, tie) ==
    /\ qres' = [path |-> path, limit |-> l, status |-> 200,
                ids |-> Top(DOMAIN db, Limit(l, Default(path)), tie)]
    /\ QueryFrame

\* The recent-records handlers.
Query ==
    \/ \E path \in Paths, l \in LimitInputs : QueryFail(path, l)
    \/ \E path \in Paths, l \in LimitInputs, tie \in {"asc", "desc"} :
          QueryRows(path, l, tie)

\* ------------------------------------------------- the dashboard viewer

\* The payloads of the "submission" frames among fs, in order.
RECURSIVE Submissions(_)
Submissions(fs) ==
    IF fs = <<>> THEN <<>>
    ELSE IF Head(fs).event = "submission"
         THEN <<Head(fs).data>> \o Submissions(Tail(fs))
         ELSE Submissions(Tail(fs))

\* Date.now() in the browsers of the viewers.
ClientNow == {8, 9}

\* Math.max(0, x)
Max0(x) == IF x < 0 THEN 0 ELSE x

\* The latency payload the "submission" listener computes at time t from
\* the data d of an event; JSON.stringify leaves out what is undefined.
ViewerPayload(d, t) ==
    [f \in LatencyFields |->
        CASE f = "submitToDisplay" -> IF d.csa # Null THEN Max0(t - d.csa) ELSE Null
          [] f = "serverToDisplay" -> Max0(t - d.sba)
          [] f = "submitToServer" -> IF d.csa # Null THEN Max0(d.sba - d.csa) ELSE Null]

\* The viewer of connection s handles its next "submission" event at time t:
\* it POSTs the latency of the record (fire and forget); the server answers
\* the request, or the request never arrives.
ViewerReport(s, t) ==
    /\ seen[s] < Len(Submissions(frames[s]))
    /\ seen' = [seen EXCEPT ![s] = @ + 1]
    /\ LET d == Submissions(frames[s])[seen[s] + 1]
       IN \/ LatencyUpdate(d.id, ViewerPayload(d, t))
          \/ LatencyUpdateFail(d.id, ViewerPayload(d, t))
          \/ UNCHANGED <<db, lreq, lcount>>
    /\ UNCHANGED <<rpc, rin, rid, rsba, now, published, rbody>>
    /\ UNCHANGED busVars
    /\ UNCHANGED sessVars
    /\ UNCHANGED qres
    /\ UNCHANGED clientVars

\* The viewers of the connections SS.
Viewer(SS) == \E s \in SS, t \in ClientNow : ViewerReport(s, t)

\* ------------------------------------------ the dashboard's connection

Min(a, b) == IF a < b THEN a ELSE b

\* What the dashboard's connection logic leaves alone.
ClientFrame ==
    /\ UNCHANGED busVars
    /\ UNCHANGED sessVars
    /\ UNCHANGED reqVars
    /\ UNCHANGED <<seen, lreq, lcount, qres>>

\* const delay = Math.min(1000 * Math.pow(2, attempt), 8000)
Delay(attempt) == Min(BaseDelay * 2^attempt, MaxDelay)

\* The EventSource objects made so far.
Created == {e \in Sources : es[e] # "none"}

\* Mutant: close() leaves the EventSource as it is.
CloseNothing(e) == es

\* esRef.current?.close(): readyState CLOSED, no further events.
Close(e) == IF e = 0 THEN es ELSE [es EXCEPT ![e] = "closed"]

\* The effect runs: es0 = new EventSource(...); esRef.current = es0.
ClientMount ==
    /\ esRef = 0
    /\ ~cleanup
    /\ es' = [es EXCEPT ![1] = "connecting"]
    /\ esRef' = 1
    /\ UNCHANGED <<retryRef, cleanup, timers>>
    /\ ClientFrame

\* es.onopen: the stream of EventSource e is established.
ClientOpen(e) ==
    /\ es[e] = "connecting"
    /\ es' = [es EXCEPT ![e] = "open"]
    /\ retryRef' = 0
    /\ UNCHANGED <<esRef, cleanup, timers>>
    /\ ClientFrame

\* es.onerror on EventSource e: the browser has lost the stream and retries
\* by itself (readyState CONNECTING), or gives it up (fatal: CLOSED); the
\* handler sets a timer.
ClientError(e, fatal) ==
    /\ es[e] \in {"connecting", "open"}
    /\ retryRef < MaxRetry
    /\ Len(timers) < MaxTimers
    /\ es' = [es EXCEPT ![e] = IF fatal THEN "closed" ELSE "connecting"]
    /\ retryRef' = retryRef + 1
    /\ timers' = Append(timers, [delay |-> Delay(retryRef + 1), from |-> e])
    /\ UNCHANGED <<esRef, cleanup>>
    /\ ClientFrame

\* The i-th pending timer fires (the timers were set at different times, so
\* any of them can be the next): if (cleanup) return; close the EventSource
\* in use, make the next one and use it.
ClientTimer(i) ==
    /\ i \in 1..Len(timers)
    /\ timers' = SubSeq(timers, 1, i - 1) \o SubSeq(timers, i + 1, Len(timers))
    /\ IF cleanup
       THEN UNCHANGED <<es, esRef>>
       ELSE /\ Cardinality(Created) < MaxSources
            /\ LET next == Cardinality(Created) + 1
               IN /\ es' = [Close(esRef) EXCEPT ![next] = "connecting"]
                  /\ esRef' = next
    /\ UNCHANGED <<retryRef, cleanup>>
    /\ ClientFrame

\* The effect's cleanup: cleanup = true; esRef.current?.close().
ClientCleanup ==
    /\ esRef # 0
    /\ ~cleanup
    /\ cleanup' = TRUE
    /\ es' = Close(esRef)
    /\ UNCHANGED <<esRef, retryRef, timers>>
    /\ ClientFrame

\* The connection logic of one dashboard.
Client ==
    \/ ClientMount
    \/ \E e \in Sources : ClientOpen(e)
    \/ \E e \in Sources, fatal \in BOOLEAN : ClientError(e, fatal)
    \/ \E i \in 1..MaxTimers : ClientTimer(i)
    \/ ClientCleanup

\* ------------------------------------------------------- specifications

\* The coordinator goroutine, serving the stream handlers SS.
Bus(SS) ==
    \/ \E s \in SS : CoordAdd(s)
    \/ \E s \in SS : CoordRemove(s)
    \/ CoordRecv
    \/ \E ch \in Handles : CoordDeliver(ch)

\* The stream handlers SS and their peers.
Stream(SS) ==
    \/ \E s \in SS, ok \in BOOLEAN : StreamStart(s, ok)
    \/ \E s \in SS : Cancel(s)
    \/ \E s \in SS : SessGreet(s)
    \/ \E s \in SS : SessNotify(s)
    \/ \E s \in SS : SessMsg(s)

\* The stream handlers SS when no peer reads: every handler stays in its
\* write of the greeting or in its loop without taking a message.
StalledStream(SS) ==
    \/ \E s \in SS, ok \in BOOLEAN : StreamStart(s, ok)
    \/ \E s \in SS : Cancel(s)
    \/ \E s \in SS : SessGreet(s)
    \/ \E s \in SS : SessNotify(s)

\* The heartbeat tickers of the stream handlers SS.
Heartbeat(SS) ==
    \/ \E s \in SS : Tick(s)
    \/ \E s \in SS : SessHeartbeat(s)

\* The writes of the stream handlers SS that fail.
Transport(SS) ==
    \/ \E s \in SS : SessGreetFail(s)
    \/ \E s \in SS : SessHeartbeatFail(s)
    \/ \E s \in SS : SessMsgFail(s)

\* The submit handlers of the requests RS, whose bodies are of the kinds BS
\* and carry a clientSubmitAt drawn from INS.
Submit(RS, INS, BS) ==
    \/ \E r \in RS : SubmitBadInput(r)
    \/ \E r \in RS, in \in INS, body \in BS : SubmitInsertFail(r, in, body)
    \/ \E r \in RS, in \in INS, body \in BS : SubmitInsert(r, in, body)
    \/ \E r \in RS, t \in 1..MaxNow : SubmitStamp(r, t)
    \/ \E r \in RS : SubmitPublish(r)
    \/ \E r \in RS : SubmitRespond(r)

\* The submit handlers of the requests RS when every body is well formed,
\* the storage works and the requests come one after another.
SerialSubmit(RS) ==
    \/ \E r \in RS : /\ \A x \in RS \ {r} : rpc[x] \in {"idle", "done"}
                      /\ SubmitInsert(r, 7, "full")
    \/ \E r \in RS, t \in 1..MaxNow : SubmitStamp(r, t)
    \/ \E r \in RS : SubmitPublish(r)
    \/ \E r \in RS : SubmitRespond(r)

\* The broadcast pipeline: all connections, all requests, every request
\* carrying a clientSubmitAt.
Next == Bus(Sessions) \/ Stream(Sessions) \/ Submit(Requests, {7}, {"full"})

Spec == Init /\ [][Next]_vars

\* What the Go runtime guarantees: a goroutine that can take a step takes
\* one, a select with a ready case proceeds, a sender blocked on a channel is
\* served once the channel has room. Nothing makes a peer disconnect, a
\* ticker fire in time or a request arrive; and a stream handler may stay in
\* a write to a peer that has stopped reading, so nothing makes it take the
\* next message off its queue.
Fairness ==
    /\ WF_vars(CoordRecv)
    /\ \A ch \in Handles : WF_vars(CoordDeliver(ch))
    /\ \A s \in Sessions :
          /\ WF_vars(CoordAdd(s))
          /\ WF_vars(CoordRemove(s))
          /\ WF_vars(SessGreet(s))
          /\ WF_vars(SessNotify(s))
    /\ \A r \in Requests :
          /\ WF_vars(\E t \in 1..MaxNow : SubmitStamp(r, t))
          /\ WF_vars(SubmitPublish(r))
          /\ WF_vars(SubmitRespond(r))

\* The pipeline with one connection and all requests, under fairness.
PublishNext == Bus({1}) \/ Stream({1}) \/ Submit(Requests, {7}, {"full"})

PublishFairSpec == Init /\ [][PublishNext]_vars /\ Fairness

\* The pipeline with all connections and the first NumFewRequests
\* requests, under fairness.
CancelNext == Bus(Sessions) \/ Stream(Sessions) \/ Submit(1..NumFewRequests, {7}, {"full"})

CancelFairSpec == Init /\ [][CancelNext]_vars /\ Fairness

\* The broadcaster under any caller: the pipeline with the first
\* NumFewRequests requests, the heartbeats and stamps that fail, plus remove
\* requests for channels that are not subscribed.
BusNext ==
    \/ Bus(Sessions) \/ Stream(Sessions) \/ Heartbeat(Sessions)
    \/ Submit(1..NumFewRequests, {7}, {"full"})
    \/ \E r \in 1..NumFewRequests, t \in 1..MaxNow : SubmitStampFail(r, t)
    \/ \E ch \in Handles : StrayRemove(ch)

BusSpec == Init /\ [][BusNext]_vars

\* The pipeline with all connections, one request, the heartbeats and
\* writes that fail, under fairness.
TransportNext ==
    \/ Bus(Sessions) \/ Stream(Sessions) \/ Heartbeat(Sessions)
    \/ Transport(Sessions) \/ Submit({1}, {7}, {"full"})

TransportFairSpec == Init /\ [][TransportNext]_vars /\ Fairness

\* The pipeline with all connections and all requests, one successful
\* request after another, when no handler ever takes a message off its
\* queue, under fairness: queues and b.send fill up.
StalledNext ==
    Bus(Sessions) \/ StalledStream(Sessions) \/ SerialSubmit(Requests)

StalledFairSpec == Init /\ [][StalledNext]_vars /\ Fairness

\* Stream handlers whose peers keep reading: a handler in its loop with a
\* message in its queue comes back to its select and takes it (Go's select
\* picks among the ready cases at random, so a ready case is not passed over
\* for ever).
StreamFairness == \A s \in Sessions : WF_vars(SessMsg(s))

\* The same for the heartbeat case: a handler in its loop with a tick
\* waiting in heartbeat.C takes it.
HeartbeatFairness == \A s \in Sessions : WF_vars(SessHeartbeat(s))

\* The pipeline with all connections, their tickers and the first
\* NumFewRequests requests, one successful request after another, with
\* peers that keep reading.
TickNext ==
    \/ Bus(Sessions) \/ Stream(Sessions) \/ Heartbeat(Sessions)
    \/ SerialSubmit(1..NumFewRequests)

TickFairSpec ==
    Init /\ [][TickNext]_vars /\ Fairness /\ StreamFairness /\ HeartbeatFairness

\* The pipeline with the first NumFewRequests requests: the body of the
\* first carries any clientSubmitAt or none, the others carry one.
DataNext ==
    \/ Bus(Sessions) \/ Stream(Sessions)
    \/ Submit({1}, CsaInputs, {"full"}) \/ Submit(2..NumFewRequests, {7}, {"full"})

DataFairSpec == Init /\ [][DataNext]_vars /\ Fairness /\ StreamFairness

\* The submit path against a storage that can fail at either statement: one
\* connection, the first NumFewRequests requests with well-formed bodies of
\* both kinds, and stamps that fail.
StorageNext ==
    \/ Bus({1}) \/ Stream({1})
    \/ Submit(1..NumFewRequests, {7}, Bodies)
    \/ \E r \in 1..NumFewRequests, t \in 1..MaxNow : SubmitStampFail(r, t)

StorageSpec == Init /\ [][StorageNext]_vars

\* The latency handler under arbitrary callers, next to the pipeline with
\* one connection and the first NumFewRequests requests.
LatencyNext ==
    \/ Bus({1}) \/ Stream({1}) \/ Submit(1..NumFewRequests, {7}, {"full"})
    \/ Latency(IdInputs, BodyInputs)

LatencySpec == Init /\ [][LatencyNext]_vars

\* The pipeline with all connections and one request, and the viewers of
\* the connections reporting latencies.
ViewerNext ==
    \/ Bus(Sessions) \/ Stream(Sessions) \/ Submit({1}, {7}, {"full"})
    \/ Viewer(Sessions)

ViewerSpec == Init /\ [][ViewerNext]_vars

\* One dashboard and its connection logic.
ClientSpec == Init /\ [][Client]_vars

\* A table left by earlier runs of the server: n rows inserted two per
\* second (timestamp is CURRENT_TIMESTAMP, which counts seconds), from
\* before the latency columns were added.
OldTable(n) ==
    [i \in 1..n |->
        [csa |-> Null, sba |-> Null, lat |-> NoFields, ts |-> (i + 1) \div 2]]

TableSizes == {0, 3, 15, 25, MaxRows}

\* The recent-records handlers on a server started on a table of any of
\* these sizes.
QueryInit == \E n \in TableSizes : InitOn(OldTable(n))

QuerySpec == QueryInit /\ [][Query]_vars

\* ------------------------------------------------------------ vocabulary

\* a is b with some elements left out.
RECURSIVE IsSubseq(_, _)
IsSubseq(a, b) ==
    IF a = <<>> THEN TRUE
    ELSE IF b = <<>> THEN FALSE
    ELSE IF Head(a) = Head(b) THEN IsSubseq(Tail(a), Tail(b))
    ELSE IsSubseq(a, Tail(b))

Range(q) == {q[i] : i \in 1..Len(q)}

NoDuplicates(q) == \A i, j \in 1..Len(q) : i # j => q[i] # q[j]

\* Every payload that is somewhere between Publish and a transport.
InFlight ==
    Range(sendBuf) \cup (IF cpc = "fanout" THEN {cmsg} ELSE {})
    \cup UNION {Range(queue[h]) : h \in Handles}

Written == UNION {Range(Submissions(frames[s])) : s \in Sessions}

\* ----------------------------------------------------------------- claims

\* C1: backpressure isolation. The fan-out of a message starts with every
\* subscribed channel to visit; each visit takes exactly the visited channel
\* off the list, whether or not its queue was full, appends the message to
\* the visited queue if it has room and leaves it unchanged if it is full,
\* touches no other queue, and the loop ends only when no channel is left.
C1_BackpressureIsolation ==
    [][/\ (cpc = "select" /\ sendBuf' # sendBuf /\ Len(sendBuf') < Len(sendBuf))
            => /\ ctodo' = conns
               /\ (conns # {} => cpc' = "fanout" /\ cmsg' = Head(sendBuf))
       /\ (cpc = "fanout" /\ ctodo' # ctodo)
            => \E ch \in ctodo :
                 /\ ctodo' = ctodo \ {ch}
                 /\ queue' = [queue EXCEPT ![ch] =
                                 IF Len(@) < QueueCap THEN Append(@, cmsg) ELSE @]
       /\ (cpc = "fanout" /\ cpc' = "select") => ctodo' = {}
       /\ (cpc = "fanout") => ctodo # {} /\ ctodo \subseteq conns
      ]_vars

\* C1 witness: all three messages were fanned out with both sessions
\* subscribed; one session never read, so its full queue holds the first two
\* and missed the third, which the other session has written.
C1_Witness ==
    /\ Len(published) = 3
    /\ sendBuf = <<>> /\ cpc = "select"
    /\ \E slow, fast \in conns :
         /\ slow # fast
         /\ queue[slow] = <<published[1], published[2]>>
         /\ Submissions(frames[slow]) = <<>>
         /\ Submissions(frames[fast]) = published

\* C3: per-subscriber FIFO. The submission frames a session wrote are, in
\* order and without repetition, a subsequence of the messages in the order
\* they were handed to Publish.
C3_PerSubscriberFifo ==
    \A s \in Sessions :
        /\ IsSubseq(Submissions(frames[s]), published)
        /\ NoDuplicates(Submissions(frames[s]))

\* C3 witness: a session wrote two messages in publish order although the
\* second carries the smaller id, and missed the third.
C3_Witness ==
    \E s \in Sessions :
        /\ Len(published) = 3
        /\ Submissions(frames[s]) = <<published[1], published[2]>>
        /\ published[1].id > published[2].id
        /\ sendBuf = <<>> /\ cpc = "select" /\ queue[s] = <<>>

\* The sends on b.remove handler s has issued: those the coordinator took,
\* and the one it is waiting on.
Issued(s) == removes[s] + (IF spc[s] = "removing" THEN 1 ELSE 0)

\* C6: unsubscribe-on-close runs exactly once. A handler that has left the
\* stream loop has issued exactly one send on b.remove for its channel; one
\* that has not left it (or failed before b.add) has issued none.
C6_UnsubscribeExactlyOnce ==
    \A s \in Sessions :
        /\ spc[s] \in {"removing", "closed"} => Issued(s) = 1
        /\ spc[s] \in {"idle", "failed", "adding", "greet", "loop"} => Issued(s) = 0
        /\ spc[s] = "closed" => s \notin conns /\ closes[s] = 1

\* C6 witness: one handler subscribed, was cancelled and closed after its
\* one remove; another failed before subscribing.
C6_Witness ==
    \E s, f \in Sessions :
        /\ spc[s] = "closed" /\ removes[s] = 1 /\ frames[s] # <<>>
        /\ spc[f] = "failed" /\ removes[f] = 0

\* C9: a failed INSERT prevents the broadcast. The step in which a submit
\* fails changes no buffer, no queue and no row; the failure (500) is final;
\* the payloads published are exactly those of the submits that got past
\* Publish, and none carries the id of a failed submit.
C9_InsertFailureNoBroadcast ==
    /\ [][\A r \in Requests :
            /\ (rpc[r] # "failed" /\ rpc'[r] = "failed")
                 => UNCHANGED <<published, sendBuf, queue, cmsg, db>>
            /\ rpc[r] = "failed" => rpc'[r] = "failed"]_vars
    /\ [](/\ Len(published) = Cardinality({r \in Requests : rpc[r] \in {"respond", "done"}})
          /\ \A r \in Requests : rpc[r] = "failed" =>
                \A m \in InFlight \cup Written \cup Range(published) : m.id # rid[r])

\* C9 witness: the first submit failed at the INSERT with a session
\* subscribed; the second went through and is the only payload published.
C9_Witness ==
    /\ rpc[1] = "failed" /\ rpc[2] = "done"
    /\ Len(published) = 1 /\ published[1].id = rid[2]
    /\ \E s \in conns : Submissions(frames[s]) = published

\* C10: every id carried by a payload in b.send, in the fan-out, in a
\* queue or written to a transport is the id of a row of the table.
C10_BroadcastIdInStorage ==
    \A m \in InFlight \cup Written : m.id \in DOMAIN db

\* C10 witness: a transport carries the payload of the second row while
\* another payload waits in b.send.
C10_Witness ==
    /\ Len(db) >= 2
    /\ \E m \in Written : m.id = 2
    /\ sendBuf # <<>>

\* C2: the publisher is never blocked for good. A submit handler that has
\* reached b.send <- payload gets its payload into b.send and returns its
\* response, although no stream handler is ever obliged to read its queue.
C2_PublisherNeverBlocked ==
    \A r \in Requests : (rpc[r] = "publish") ~> (rpc[r] = "done")

\* C2 witness: every submit has returned its response although the one
\* subscriber never read its queue, which filled up and missed a payload.
C2_Witness ==
    /\ \A r \in Requests : rpc[r] = "done"
    /\ \E h \in conns :
          /\ Len(queue[h]) = QueueCap
          /\ Submissions(frames[h]) = <<>>
          /\ Len(published) > QueueCap

\* Handlers that subscribed and whose peer has not gone.
StillConnected == {s \in Sessions : spc[s] \in {"greet", "loop"} /\ ~cancelled[s]}

\* C7: after the connection of a handler is cancelled, the handler leaves
\* its wait and its channel leaves b.conns; and whenever every cancelled
\* handler has closed, b.conns holds exactly the channels of the handlers
\* still connected.
C7_CancelledSessionLeaves ==
    /\ \A s \in Sessions : cancelled[s] ~> (spc[s] = "closed" /\ s \notin conns)
    /\ []((\A s \in Sessions : cancelled[s] => spc[s] = "closed")
            => conns = StillConnected)

\* C7 witness: one handler connected and disconnected and is gone from
\* b.conns, which again holds only the handler that was there before.
C7_Witness ==
    \E s, u \in Sessions :
        /\ cancelled[s] /\ spc[s] = "closed" /\ closes[s] = 1
        /\ spc[u] = "loop" /\ ~cancelled[u]
        /\ conns = {u}

\* C4: the subscriber set is the replay of the processed requests. After
\* any sequence of add, remove and send cases, b.conns equals the set got
\* by replaying the adds and removes alone, in the order they were taken.
C4_SetEqualsReplay == conns = replayed

\* C4 witness: after two adds, a remove, a stray remove and a fan-out with a
\* payload left in a queue, the set is the one handler that stayed.
C4_Witness ==
    \E s, u \in Sessions :
        /\ conns = {u} /\ closes[s] = 1 /\ removes[s] = 2
        /\ queue[u] # <<>> /\ Len(published) = 2 /\ sendBuf = <<>>

\* C5: Unsubscribe is idempotent. A remove request for a channel that is
\* not in b.conns changes neither the set nor any queue and closes nothing;
\* one for a channel that is in the set takes out that channel only and
\* closes it; so no channel is ever closed twice.
C5_UnsubscribeIdempotent ==
    [][\A ch \in Handles :
         /\ (removes'[ch] # removes[ch] /\ ch \notin conns)
              => UNCHANGED <<conns, queue, closes>>
         /\ (removes'[ch] # removes[ch] /\ ch \in conns)
              => /\ conns' = conns \ {ch}
                 /\ closes' = [closes EXCEPT ![ch] = 1]
                 /\ queue' = queue
         /\ closes'[ch] <= 1
      ]_vars

\* C5 witness: the channel of a closed handler got a second remove request
\* and the never-added channel got one; each channel was closed at most once.
C5_Witness ==
    \E s \in Sessions :
        /\ removes[s] = 2 /\ closes[s] = 1
        /\ removes[0] >= 1 /\ closes[0] = 0
        /\ conns # {}

\* The submission frames handler s wrote that carry the id of request r.
FramesFor(s, r) ==
    {i \in 1..Len(Submissions(frames[s])) : Submissions(frames[s])[i].id = rid[r]}

\* Request r got past the INSERT.
Succeeded(r) == rpc[r] \in {"stamp", "publish", "respond", "done"}

\* The fan-out never meets a full queue (true of the runs of DataFairSpec,
\* which publish no more messages than a queue holds).
NoQueueFull == cpc = "fanout" => \A ch \in ctodo : Len(queue[ch]) < QueueCap

\* C8 as stated: for every successful submit, each session that is subscribed
\* when the submit starts and stays connected writes exactly one submission
\* frame for it (no queue being full at the fan-out), and every frame written
\* for the submit carries the id of its row and the clientSubmitAt of the
\* request body, unchanged (absent if the body had none).
C8_Original ==
    /\ \A r \in Requests, s \in Sessions :
          (rpc[r] \in {"stamp", "publish"} /\ s \in conns)
             ~> (cancelled[s] \/ Cardinality(FramesFor(s, r)) = 1)
    /\ [](/\ NoQueueFull
          /\ \A r \in Requests, s \in Sessions : Succeeded(r) =>
                /\ Cardinality(FramesFor(s, r)) <= 1
                /\ \A i \in FramesFor(s, r) :
                      /\ Submissions(frames[s])[i].id \in DOMAIN db
                      /\ Submissions(frames[s])[i].csa = rin[r])

\* C8, amended: the same, but the frame carries the clientSubmitAt of the
\* request body only if it is not zero; a body whose clientSubmitAt is 0, or
\* that has none, yields a frame without the field.
C8_OneFrameWithIdAndTimestamp ==
    /\ \A r \in Requests, s \in Sessions :
          (rpc[r] \in {"stamp", "publish"} /\ s \in conns)
             ~> (cancelled[s] \/ Cardinality(FramesFor(s, r)) = 1)
    /\ [](/\ NoQueueFull
          /\ \A r \in Requests, s \in Sessions : Succeeded(r) =>
                /\ Cardinality(FramesFor(s, r)) <= 1
                /\ \A i \in FramesFor(s, r) :
                      /\ Submissions(frames[s])[i].id \in DOMAIN db
                      /\ Submissions(frames[s])[i].csa =
                            (IF rin[r] \in {Null, 0} THEN Null ELSE rin[r]))

\* C8 witness: a connected session has written one frame for each of two
\* submits, the first, whose body had no clientSubmitAt, without the field,
\* the second with the clientSubmitAt 7 of its body.
C8_Witness ==
    \E s \in conns :
        /\ spc[s] = "loop" /\ ~cancelled[s]
        /\ rpc[1] = "done" /\ rin[1] = Null /\ rpc[2] = "done" /\ rin[2] = 7
        /\ Cardinality(FramesFor(s, 1)) = 1 /\ Cardinality(FramesFor(s, 2)) = 1
        /\ \E i \in FramesFor(s, 1) : Submissions(frames[s])[i].csa = Null
        /\ \E i \in FramesFor(s, 2) : Submissions(frames[s])[i].csa = 7

\* The payload of request r has been handed to b.send.
Published(r) == \E i \in 1..Len(published) : published[i].id = rid[r]

\* C11: for each successful submit the INSERT commits, then the row's
\* server_broadcast_at_ms is stamped, then the payload is handed to b.send,
\* and the response follows the hand-off: a handler past the INSERT has its
\* row; a payload is handed over only for a row that carries a stamp; a
\* handler that has not reached b.send has handed over nothing; a handler at
\* its response has handed over its payload.
C11_InsertStampPublishRespond ==
    \A r \in Requests :
        /\ Succeeded(r) => rid[r] \in DOMAIN db
        /\ (Succeeded(r) /\ Published(r)) => db[rid[r]].sba # Null
        /\ rpc[r] \in {"stamp", "publish"} => ~Published(r)
        /\ rpc[r] \in {"respond", "done"} => Published(r)

\* C12: a submit whose body is malformed, or well-formed but lacking a
\* required field, is rejected: it inserts no row and publishes nothing.
C12_MalformedRejected ==
    \A r \in Requests :
        rbody[r] \in {"partial", "malformed"} =>
            /\ rpc[r] = "rejected"
            /\ rid[r] \notin DOMAIN db
            /\ ~Published(r)

\* C13: a latency request that supplies none of the three fields, or whose
\* id is not a positive integer, is answered with an error (400) and leaves
\* every row as it was.
C13_EmptyOrBadIdRejected ==
    [][(lcount' # lcount /\ (lreq'.body = NoFields \/ lreq'.id = Null \/ lreq'.id <= 0))
          => (lreq'.status = 400 /\ db' = db)]_vars

\* C13 witness: a row carries the latency of an earlier update, and the
\* last request, for id 0 with fields set, was answered 400.
C13_Witness ==
    /\ lcount = 2 /\ lreq.id = 0 /\ lreq.body # NoFields /\ lreq.status = 400
    /\ \E i \in DOMAIN db : db[i].lat # NoFields

\* C14: a successful latency update for id i sets, on row i only, exactly
\* the fields supplied, each to the value supplied; the fields not supplied,
\* the other columns of row i and every other row stay as they were, and no
\* row is created or deleted.
C14_UpdateFrame ==
    [][(lcount' # lcount /\ lreq'.status = 200) =>
          /\ DOMAIN db' = DOMAIN db
          /\ \A j \in DOMAIN db :
                /\ j # lreq'.id => db'[j] = db[j]
                /\ j = lreq'.id =>
                      /\ db'[j].csa = db[j].csa
                      /\ db'[j].sba = db[j].sba
                      /\ \A f \in LatencyFields :
                            db'[j].lat[f] = IF lreq'.body[f] # Null
                                            THEN lreq'.body[f]
                                            ELSE db[j].lat[f]]_vars

\* C14 witness: after an update of two fields, an update of the third alone
\* has left the two as they were, on a row next to an untouched one.
C14_Witness ==
    /\ lcount = 2 /\ lreq.status = 200
    /\ lreq.body = [NoFields EXCEPT !["serverToDisplay"] = 4]
    /\ lreq.id \in DOMAIN db
    /\ db[lreq.id].lat = [f \in LatencyFields |-> IF f = "serverToDisplay" THEN 4 ELSE 9]
    /\ \E j \in DOMAIN db : j # lreq.id /\ db[j].lat = NoFields

\* C15 as stated: each latency field of a row is mutated at most once: a
\* field that has a value keeps that value for good.
C15_Original ==
    [][\A i \in DOMAIN db, f \in LatencyFields :
          db[i].lat[f] # Null => db'[i].lat[f] = db[i].lat[f]]_vars

\* C15, amended: a latency field can be mutated any number of times. It is
\* changed only by a successful latency update for its row that supplies
\* it; every such update overwrites it with the value supplied (last write
\* wins); and a field that has a value never becomes absent again.
C15_LastWriteWins ==
    [][\A i \in DOMAIN db, f \in LatencyFields :
          /\ db[i].lat[f] # Null => db'[i].lat[f] # Null
          /\ db'[i].lat[f] # db[i].lat[f] =>
                /\ lcount' # lcount /\ lreq'.status = 200 /\ lreq'.id = i
                /\ lreq'.body[f] = db'[i].lat[f]
          /\ (lcount' # lcount /\ lreq'.status = 200 /\ lreq'.id = i
                /\ lreq'.body[f] # Null) => db'[i].lat[f] = lreq'.body[f]]_vars

\* C15 witness: the viewers of both connections have received the frame of
\* the same record and reported its latency, and the row holds what the
\* last report supplied.
C15_Witness ==
    /\ \A s \in Sessions : seen[s] = 1 /\ Cardinality(FramesFor(s, 1)) = 1
    /\ lcount = 2 /\ lreq.status = 200 /\ lreq.id = 1
    /\ db[1].lat = lreq.body
    /\ db[1].lat["submitToDisplay"] = 2

\* C16: a recent-records query whose limit exceeds the maximum is clamped to
\* the maximum: it returns min(MaxLimit, number of rows) rows.
C16_LimitClampedToMax ==
    (qres.status = 200 /\ qres.limit.kind = "int" /\ qres.limit.v > MaxLimit)
        => Len(qres.ids) = Min(MaxLimit, Len(db))

\* C17: a recent-records query with limit 0, a negative limit or no limit
\* uses the default of its path: it returns min(default, number of rows)
\* rows, never more than the default, and the limit never makes it fail
\* (it is answered 200, or 500 when the storage fails).
C17_DefaultLimit ==
    (qres.path # "none" /\ (qres.limit.kind = "absent"
                              \/ (qres.limit.kind = "int" /\ qres.limit.v <= 0)))
        => /\ qres.status \in {200, 500}
           /\ qres.status = 200 =>
                 /\ Len(qres.ids) = Min(Default(qres.path), Len(db))
                 /\ Len(qres.ids) <= Default(qres.path)

\* C17 witness: /api/leads?limit=-5 on a table of 25 rows returned 20.
C17_Witness ==
    /\ qres.path = "leads" /\ qres.limit = [kind |-> "int", v |-> -5]
    /\ qres.status = 200 /\ Len(db) = 25 /\ Len(qres.ids) = LeadsDefault

\* What the bus holds.
BusState == <<conns, closes, sendBuf, cpc, cmsg, ctodo>>

\* What stream handler s holds.
SessState(s) == <<spc[s], queue[s], frames[s], cancelled[s], werr[s], hb[s]>>

Holds(s, r) ==
    \/ \E i \in 1..Len(queue[s]) : queue[s][i].id = rid[r]
    \/ FramesFor(s, r) # {}

\* The send on b.send of request r's handler has returned.
Returned(r) == rpc[r] \in {"respond", "done"}

\* The coordinator has taken the payload of request r off b.send.
Taken(r) == Returned(r) /\ \A i \in 1..Len(sendBuf) : sendBuf[i].id # rid[r]

\* C19 as stated: a handler that has not begun to subscribe when the send on
\* b.send of a request has returned never gets the payload of that request.
C19_Original ==
    \A r \in Requests, s \in Sessions :
        []((spc[s] = "idle" /\ Returned(r)) => [](~Holds(s, r)))

\* C19: a message goes only to the channels that are in b.conns when the
\* coordinator takes it off b.send. A channel gets a message only in the
\* fan-out of that message, as one of the channels the fan-out started with;
\* and a handler whose add has not been taken when the coordinator has taken
\* the payload of a request never gets that payload.
C19_NoReplay ==
    /\ [][\A s \in Sessions :
            queue'[s] # queue[s] /\ Len(queue'[s]) >= Len(queue[s]) =>
                /\ cpc = "fanout" /\ s \in ctodo /\ s \in conns
                /\ queue'[s] = Append(queue[s], cmsg)]_vars
    /\ \A r \in Requests, s \in Sessions :
          []((spc[s] \in {"idle", "adding"} /\ Taken(r)) => [](~Holds(s, r)))

\* C19 witness: one handler has written the payload of a request, and the
\* other, subscribed since the coordinator took that payload, is in its loop
\* with no message written or waiting.
C19_Witness ==
    \E r \in Requests, s, u \in Sessions :
        /\ Taken(r) /\ cpc = "select"
        /\ FramesFor(u, r) # {}
        /\ spc[s] = "loop" /\ s \in conns /\ ~cancelled[s]
        /\ queue[s] = <<>> /\ Submissions(frames[s]) = <<>>

\* The coordinator has taken a remove request for channel h.
Unsubscribed(h) == removes[h] >= 1

\* C20: once the coordinator has taken the remove request of a channel, the
\* channel is in neither b.conns nor a fan-out, no step puts a message on
\* it (or takes one off), and its handler writes no further frame.
C20_NoDeliveryAfterUnsubscribe ==
    /\ [](\A h \in Handles :
            Unsubscribed(h) => h \notin conns /\ (cpc = "fanout" => h \notin ctodo))
    /\ [][\A h \in Handles :
            Unsubscribed(h) =>
                /\ queue'[h] = queue[h]
                /\ h \in Sessions => frames'[h] = frames[h]]_vars

\* C20 witness: a handler closed with one message left on its channel and
\* none written; a later message has gone to the other handler, which wrote
\* it, and not to the closed one.
C20_Witness ==
    \E r \in Requests, h, u \in Sessions :
        /\ Unsubscribed(h) /\ spc[h] = "closed" /\ closes[h] = 1
        /\ Len(queue[h]) = 1 /\ Submissions(frames[h]) = <<>>
        /\ Taken(r) /\ ~Holds(h, r) /\ FramesFor(u, r) # {}

\* A step of the cancellation of handler s: its context is cancelled, its
\* select takes <-notify, or the coordinator takes its remove request.
CancellationStep(s) ==
    \/ ~cancelled[s] /\ cancelled'[s] /\ ~werr'[s]
    \/ spc[s] = "loop" /\ spc'[s] = "removing"
    \/ spc[s] = "removing" /\ spc'[s] = "closed"

\* C21: cancelling one handler affects that handler only. Each step of its
\* cancellation (the cancel, the return from the loop, the remove case)
\* leaves every other channel in or out of b.conns as it was, leaves every
\* other channel's queue and every other handler's state and frames as they
\* were, and leaves b.send and the coordinator's fan-out as they were.
C21_CancelAffectsOnlyThatSession ==
    [][\A s \in Sessions :
            CancellationStep(s) =>
                /\ conns' \ {s} = conns \ {s}
                /\ \A u \in Sessions \ {s} : SessState(u)' = SessState(u)
                /\ <<sendBuf, cpc, cmsg, ctodo>>' = <<sendBuf, cpc, cmsg, ctodo>>
                /\ \A u \in Handles \ {s} : closes'[u] = closes[u]]_vars

\* C21 witness: one handler was cancelled and has closed; the other is still
\* subscribed, in its loop, with a message waiting on its channel.
C21_Witness ==
    \E s, u \in Sessions :
        /\ cancelled[s] /\ ~werr[s] /\ spc[s] = "closed" /\ closes[s] = 1
        /\ u \in conns /\ spc[u] = "loop" /\ ~cancelled[u]
        /\ queue[u] # <<>> /\ closes[u] = 0

\* The handlers whose add the coordinator has taken and whose remove it has
\* not: each made its own channel msgCh and handed it over once.
Subscribed == {s \in Sessions : spc[s] \in {"greet", "loop", "removing"}}

\* C22: b.conns holds one channel for each subscribed handler, its own, and
\* no other channel; a channel enters b.conns only by the one add of the
\* handler that made it, which has not been in b.conns before; and a handler
\* sends an add only as it starts.
C22_OneHandlePerConnection ==
    /\ [](conns = Subscribed)
    /\ [][\A s \in Sessions :
            (s \in conns' /\ s \notin conns) =>
                (spc[s] = "adding" /\ spc'[s] = "greet" /\ removes[s] = 0
                 /\ closes[s] = 0)]_vars
    /\ [][\A s \in Sessions :
            (spc'[s] = "adding" /\ spc[s] # "adding") => spc[s] = "idle"]_vars

\* C22 witness: every handler is subscribed and b.conns holds as many
\* channels as there are handlers.
C22_Witness ==
    /\ Subscribed = Sessions
    /\ Cardinality(conns) = NumSessions
    /\ \A s \in Sessions : spc[s] = "loop"

\* Somebody waits for the coordinator: a handler in its send on b.add or
\* b.remove, a payload in b.send, or a fan-out under way.
Waiting ==
    \/ \E s \in Sessions : spc[s] \in {"adding", "removing"}
    \/ sendBuf # <<>>
    \/ cpc = "fanout"

\* C23: subscribe and unsubscribe never wait for ever. A handler in its send
\* on b.add is subscribed in the end and a handler in its send on b.remove is
\* unsubscribed in the end, however full the queues and b.send are; and
\* whenever somebody waits for the coordinator, the coordinator can take a
\* step (no deadlock).
C23_SubscribeUnsubscribeAccepted ==
    /\ \A s \in Sessions : (spc[s] = "adding") ~> (s \in conns)
    /\ \A s \in Sessions :
          (spc[s] = "removing") ~> (spc[s] = "closed" /\ s \notin conns)
    /\ [](Waiting => ENABLED Bus(Sessions))

\* C23 witness: a handler has subscribed and unsubscribed while the queue of
\* the other handler and the buffer of b.send were full.
C23_Witness ==
    \E s, u \in Sessions :
        /\ spc[s] = "closed" /\ closes[s] = 1 /\ queue[s] = <<>>
        /\ u \in conns /\ Len(queue[u]) = QueueCap
        /\ Len(sendBuf) = SendCap

\* C24: the first frame a handler writes is the ": connected" comment. It is
\* written once, by a handler whose add the coordinator has taken and whose
\* channel is in b.conns, and every submission or heartbeat frame comes
\* after it.
C24_GreetingFirst ==
    /\ [](\A s \in Sessions :
            frames[s] # <<>> =>
                /\ frames[s][1] = Frame("connected", NoMsg)
                /\ \A i \in 2..Len(frames[s]) :
                      frames[s][i].event \in {"submission", "ping"})
    /\ [][\A s \in Sessions :
            (frames[s] = <<>> /\ frames'[s] # <<>>) =>
                /\ frames'[s] = <<Frame("connected", NoMsg)>>
                /\ spc[s] = "greet" /\ s \in conns /\ s \in replayed]_vars

\* C24 witness: a handler has written the greeting, then a heartbeat and a
\* submission.
C24_Witness ==
    \E s \in Sessions :
        /\ Len(frames[s]) = 3
        /\ frames[s][1].event = "connected"
        /\ {frames[s][2].event, frames[s][3].event} = {"ping", "submission"}

\* The number of heartbeat frames among the first n frames of handler s.
RECURSIVE PingsIn(_, _)
PingsIn(s, n) ==
    IF n = 0 THEN 0
    ELSE PingsIn(s, n - 1) + (IF frames[s][n].event = "ping" THEN 1 ELSE 0)

Pings(s) == PingsIn(s, Len(frames[s]))

\* The payload of request r waits on the channel of handler s.
InQueue(s, r) ==
    rid[r] > 0 /\ \E i \in 1..Len(queue[s]) : queue[s][i].id = rid[r]

C26_StampEqualsPayload ==
    \A i \in 1..Len(published) :
        /\ published[i].id \in DOMAIN db
        /\ db[published[i].id].sba = published[i].sba

\* C27: in every state each of the three latency columns of every row is
\* NULL or a non-negative number, whatever the latency requests carry.
C27_LatencyNonNegative ==
    \A i \in DOMAIN db, f \in LatencyFields :
        db[i].lat[f] = Null \/ db[i].lat[f] >= 0

\* C28: a recent-records query returns the rows newest first: of any two
\* rows of one result the one inserted later (the larger id) comes first,
\* also when both were inserted in the same second.
C28_NewestFirst ==
    qres.status = 200 =>
        \A i, j \in 1..Len(qres.ids) : i < j => qres.ids[i] > qres.ids[j]

\* The payloads handed to b.send that carry the id of request r.
PublishedFor(r) == {i \in 1..Len(published) : published[i].id = rid[r]}

\* C29: each successful submit makes exactly one row and one send on
\* b.send. The table has one row per handler that got past its INSERT, each
\* with an id of its own; a handler past its send has sent exactly one
\* payload with its id and a handler before it none; and no two payloads
\* sent carry the same id, although all requests have the same content and
\* run side by side.
C29_OneRecordOnePublish ==
    /\ Len(db) = Cardinality({r \in Requests : Succeeded(r)})
    /\ \A r, q \in Requests :
          (Succeeded(r) /\ Succeeded(q) /\ r # q) => rid[r] # rid[q]
    /\ \A r \in Requests :
          Succeeded(r) =>
              Cardinality(PublishedFor(r)) = (IF Returned(r) THEN 1 ELSE 0)
    /\ Len(published) = Cardinality({r \in Requests : Returned(r)})
    /\ \A i, j \in 1..Len(published) :
          i # j => published[i].id # published[j].id

\* C29 witness: all requests, of the same content, have succeeded, two of
\* them side by side; there are as many rows and payloads as requests.
C29_Witness ==
    /\ \A r \in Requests : rpc[r] \in {"respond", "done"} /\ rin[r] = 7
    /\ Len(db) = NumRequests /\ Len(published) = NumRequests
    /\ \E i \in 1..Len(published) : published[i].id # i

\* The place of the payload with this id in the order of the sends on b.send.
PubPos(id) == CHOOSE i \in 1..Len(published) : published[i].id = id

\* The ids of the submission frames handler s wrote, in order.
SeenIds(s) == [i \in 1..Len(Submissions(frames[s])) |-> Submissions(frames[s])[i].id]

\* C30 as stated: the ids of the submission frames a handler wrote are
\* strictly increasing.
C30_Original ==
    \A s \in Sessions :
        \A i, j \in 1..Len(SeenIds(s)) : i < j => SeenIds(s)[i] < SeenIds(s)[j]

\* C30: a handler writes the ids in the order in which their payloads were
\* sent on b.send, which need not be the order of the ids: of two frames a
\* handler wrote, the earlier carries the id whose payload was sent first.
C30_IdsInPublishOrder ==
    \A s \in Sessions :
        \A i, j \in 1..Len(SeenIds(s)) :
            i < j =>
                /\ \E k \in 1..Len(published) : published[k].id = SeenIds(s)[i]
                /\ \E k \in 1..Len(published) : published[k].id = SeenIds(s)[j]
                /\ PubPos(SeenIds(s)[i]) < PubPos(SeenIds(s)[j])

\* C30 witness: two submits ran side by side, the one with the larger id
\* sent its payload first, and a handler wrote the larger id before the
\* smaller.
C30_Witness ==
    \E s \in Sessions :
        /\ Len(SeenIds(s)) >= 2
        /\ SeenIds(s)[1] > SeenIds(s)[2]
        /\ PubPos(SeenIds(s)[1]) < PubPos(SeenIds(s)[2])

\* Channel h has not been closed.
Open(h) == closes[h] = 0

\* C31: every channel in b.conns is open. In every state the channels in
\* b.conns and the channels a fan-out has still to visit are open and no
\* channel has been closed twice; and a message is put only on an open
\* channel.
C31_SubscribedHandlesOpen ==
    /\ [](\A h \in conns : Open(h))
    /\ [](cpc = "fanout" => \A h \in ctodo : Open(h))
    /\ [](\A h \in Handles : closes[h] <= 1)
    /\ [][\A h \in Handles :
            Len(queue'[h]) > Len(queue[h]) => Open(h) /\ Open(h)']_vars

\* C31 witness: a fan-out is about to send on the open channel of one
\* handler while the channel of the other, closed once, has had a second
\* remove request.
C31_Witness ==
    \E s, u \in Sessions :
        /\ closes[s] = 1 /\ removes[s] >= 2 /\ s \notin conns
        /\ cpc = "fanout" /\ u \in ctodo /\ Open(u)

\* C32: a latency request that names a positive id for which the table has
\* no row adds no row, changes no row and is answered with a failure status.
C32_MissingIdIsFailure ==
    [][(lcount' = lcount + 1 /\ ValidId(lreq'.id) /\ lreq'.id \notin DOMAIN db)
          => (db' = db /\ lreq'.status # 200)]_vars

\* The EventSource objects that hold a stream or are trying to get one.
Live == {e \in Sources : es[e] \in {"connecting", "open"}}

\* C33: a dashboard holds at most one stream at any time and makes none
\* after its cleanup. In every state at most one EventSource is connecting
\* or open, and it is the one in esRef; after the cleanup none is, and no
\* step makes a new one.
C33_SingleConnection ==
    /\ [](Cardinality(Live) <= 1 /\ Live \subseteq {esRef})
    /\ [](cleanup => Live = {})
    /\ [][cleanup => Created' = Created]_vars

\* C33 witness: the first EventSource had two error events before a timer
\* fired; the first timer has replaced it by the second EventSource, which
\* is open, and the second timer is still pending.
C33_Witness ==
    /\ Len(timers) = 1 /\ timers[1].from = 1 /\ timers[1].delay = 4 * BaseDelay
    /\ es[1] = "closed" /\ esRef = 2 /\ es[2] = "open"
    /\ ~cleanup

====
